---- MODULE Spec2Model ----
(***************************************************************************)
(* barcodeDemulti.py: demultiplexing of paired FASTQ reads by two index    *)
(* reads and two in-read barcodes.                                         *)
(*                                                                         *)
(* A Python string is a sequence of one-character strings; a dict is a     *)
(* sequence of entries in insertion order; a file opened for writing is    *)
(* the sequence of the four-line groups written to it.                     *)
(*                                                                         *)
(* Three specifications:                                                   *)
(*   SpecIndex  one Index object, its match and recordHit methods          *)
(*   Spec       one SampleSheet object: constructor, process, reportStats  *)
(*   SpecMain   the program: constructor, the zip loop with --endAfter,    *)
(*              reportStats                                                *)
(***************************************************************************)
EXTENDS Integers, Sequences, FiniteSets, TLC

VARIABLES
    args,              \* the parsed command line
    pc,                \* position of the caller
    samples,           \* SampleSheet.samples: dict name -> QuadrupelIndex
    nameOrder,         \* SampleSheet.nameOrder
    outputHandles,     \* SampleSheet.outputHandles: name -> <<file R1, file R2>>
    withUndetermined,  \* SampleSheet.withUndetermined
    undetermined,      \* SampleSheet.undetermined
    log,               \* history: the quadruples passed to process, with the sink chosen
    report,            \* what reportStats printed
    nr,                \* the main loop's counter
    pos,               \* records each FastQIterator has yielded
    readLog,           \* history: the records each FastQIterator has yielded
    index,             \* SpecIndex: the Index object
    querySeq,          \* SpecIndex: the query
    matched            \* SpecIndex: result of the last match call

vars == <<args, pc, samples, nameOrder, outputHandles, withUndetermined,
          undetermined, log, report, nr, pos, readLog, index, querySeq, matched>>

sheetVars == <<samples, nameOrder, outputHandles, withUndetermined, undetermined>>
mainVars == <<nr, pos, readLog>>
indexVars == <<index, querySeq, matched>>

----------------------------------------------------------------------------
(* Bounds *)

MaxLines == 3       \* lines of the sample sheet
MaxCalls == 2       \* process calls on one SampleSheet (Spec)
MaxBudget == 1      \* --mismatches
MaxReads == 3       \* records of one input stream (SpecMain)
MaxCap == 2         \* --endAfter (SpecMain)
MaxPatLen == 2      \* length of an Index pattern (SpecIndex)
MaxQueryLen == 3    \* length of a query (SpecIndex)
MaxHits == 2        \* recordHit calls on one Index (SpecIndex)

----------------------------------------------------------------------------
(* Python built-ins *)

Min(a, b) == IF a < b THEN a ELSE b

Range(s) == {s[i] : i \in 1..Len(s)}

SeqsUpTo(S, n) == UNION {[1..k -> S] : k \in 0..n}

\* s[:n]
Take(s, n) == SubSeq(s, 1, Min(n, Len(s)))

\* s[n:]
Drop(s, n) == SubSeq(s, Min(n, Len(s)) + 1, Len(s))

\* zip(a, b): pairs up to the shorter of the two
RECURSIVE Zip(_, _)
Zip(a, b) ==
    IF a = <<>> \/ b = <<>> THEN <<>>
    ELSE <<<<Head(a), Head(b)>>>> \o Zip(Tail(a), Tail(b))

\* sum(...) of a sequence of numbers
RECURSIVE Sum(_)
Sum(s) == IF s = <<>> THEN 0 ELSE Head(s) + Sum(Tail(s))

\* d.keys(), d.values() of an insertion-ordered dict
Keys(d) == [i \in 1..Len(d) |-> d[i].k]
Values(d) == [i \in 1..Len(d) |-> d[i].v]
HasKey(d, key) == \E i \in 1..Len(d) : d[i].k = key
KeyIndex(d, key) == CHOOSE i \in 1..Len(d) : d[i].k = key
Get(d, key) == d[KeyIndex(d, key)].v

\* d[key] = val: a new key goes last, an old key keeps its place
DictSet(d, key, val) ==
    IF HasKey(d, key) THEN [d EXCEPT ![KeyIndex(d, key)].v = val]
    ELSE Append(d, [k |-> key, v |-> val])

\* sorted(items, key=itemgetter(1), reverse=True): stable, by count descending
RECURSIVE SortedByCountDesc(_)
InsertByCount(sorted, item) ==
    LET after == {i \in 1..Len(sorted) : sorted[i].v < item.v}
        at == IF after = {} THEN Len(sorted) + 1
              ELSE CHOOSE i \in after : \A j \in after : i <= j
    IN SubSeq(sorted, 1, at - 1) \o <<item>> \o SubSeq(sorted, at, Len(sorted))
SortedByCountDesc(items) ==
    IF items = <<>> THEN <<>>
    ELSE InsertByCount(SortedByCountDesc(SubSeq(items, 1, Len(items) - 1)),
                       items[Len(items)])

----------------------------------------------------------------------------
(* class FastqEntry *)

FastqEntry(name, seq, quali) == [name |-> name, seq |-> seq, quali |-> quali]

----------------------------------------------------------------------------
(* class Index *)

Wildcard == <<"-">>

Index(seq, mismatches) == [sequence |-> seq, mismatches |-> mismatches, hits |-> <<>>]

\* faulty variant, for comparison: the pattern's N counts as a mismatch like any other letter
nrM_CountsN(query, sequence) ==
    LET pairs == Zip(query, sequence)
    IN Sum([i \in 1..Len(pairs) |-> IF pairs[i][1] # pairs[i][2] THEN 1 ELSE 0])

\* nrM = sum(t != 'N' and s != t for s, t in zip(querySeq, self.sequence))
nrM(query, sequence) ==
    LET pairs == Zip(query, sequence)
    IN Sum([i \in 1..Len(pairs) |->
              IF pairs[i][2] # "N" /\ pairs[i][1] # pairs[i][2] THEN 1 ELSE 0])

Index_match(self, query) ==
    IF self.sequence = Wildcard THEN TRUE
    ELSE nrM(query, self.sequence) <= self.mismatches

\* faulty variant, for comparison: the hit is recorded under the whole query
clippedSeq_Whole(self, seq) == seq

clippedSeq(self, seq) == Take(seq, Len(self.sequence))

Index_recordHit(self, seq) ==
    LET key == clippedSeq(self, seq)
        h0 == IF HasKey(self.hits, key) THEN self.hits ELSE DictSet(self.hits, key, 0)
    IN [self EXCEPT !.hits = DictSet(h0, key, Get(h0, key) + 1)]

\* what reportStats prints for one channel; nothing for a wildcard
Index_reportStats(self) ==
    IF self.sequence # Wildcard
    THEN [printed |-> TRUE,
          perfect |-> IF HasKey(self.hits, self.sequence)
                      THEN Get(self.hits, self.sequence) ELSE 0,
          other |-> SortedByCountDesc(
                      SelectSeq(self.hits, LAMBDA e : e.k # self.sequence))]
    ELSE [printed |-> FALSE, perfect |-> 0, other |-> <<>>]

----------------------------------------------------------------------------
(* class QuadrupelIndex *)

QuadrupelIndex(i1, i2, bc1, bc2, mismatches) ==
    [i1 |-> Index(i1, mismatches), i2 |-> Index(i2, mismatches),
     bc1 |-> Index(bc1, mismatches), bc2 |-> Index(bc2, mismatches)]

\* the condition of the if
QuadrupelIndex_test(self, r1, r2, i1, i2) ==
    /\ Index_match(self.i1, i1)
    /\ Index_match(self.i2, i2)
    /\ Index_match(self.bc1, r1)
    /\ Index_match(self.bc2, r2)

\* faulty variant, for comparison: the hit on barcode 2 is not recorded
QuadrupelIndex_record_SkipBC2(self, r1, r2, i1, i2) ==
    [i1 |-> Index_recordHit(self.i1, i1),
     i2 |-> Index_recordHit(self.i2, i2),
     bc1 |-> Index_recordHit(self.bc1, r1),
     bc2 |-> self.bc2]

\* the object after the four recordHit calls
QuadrupelIndex_record(self, r1, r2, i1, i2) ==
    [i1 |-> Index_recordHit(self.i1, i1),
     i2 |-> Index_recordHit(self.i2, i2),
     bc1 |-> Index_recordHit(self.bc1, r1),
     bc2 |-> Index_recordHit(self.bc2, r2)]

\* match: the value returned and the object afterwards
QuadrupelIndex_match(self, r1, r2, i1, i2) ==
    IF QuadrupelIndex_test(self, r1, r2, i1, i2)
    THEN [ret |-> TRUE, self |-> QuadrupelIndex_record(self, r1, r2, i1, i2)]
    ELSE [ret |-> FALSE, self |-> self]

----------------------------------------------------------------------------
(* class SampleSheet *)

Letters == {"A", "C", "T", "G", "N", "-"}

\* the assert of the constructor, for one line of the sheet
LegalLine(line) ==
    \A letter \in Range(line.i1 \o line.i2 \o line.bc1 \o line.bc2) :
        letter \in Letters

\* the constructor's loop over the lines of the sheet; stops at the first
\* line the assert rejects
RECURSIVE ReadSheet(_, _, _, _)
ReadSheet(lines, mismatches, smp, order) ==
    IF lines = <<>> THEN [ok |-> TRUE, samples |-> smp, nameOrder |-> order]
    ELSE LET line == Head(lines) IN
         IF ~LegalLine(line)
         THEN [ok |-> FALSE, samples |-> smp, nameOrder |-> order]
         ELSE ReadSheet(Tail(lines), mismatches,
                        DictSet(smp, line.name,
                                QuadrupelIndex(line.i1, line.i2, line.bc1, line.bc2,
                                               mismatches)),
                        Append(order, line.name))

\* allNames, and one pair of empty files for each
allNames(smp, withUnd) ==
    Range(Keys(smp)) \cup (IF withUnd THEN {"Undetermined"} ELSE {})

OpenHandles(smp, withUnd) == [name \in allNames(smp, withUnd) |-> <<<<>>, <<>>>>]

NoHandles == [name \in {} |-> <<<<>>, <<>>>>]

\* the four lines writeFastQ writes for one read
lines(fastq) == <<fastq.name, fastq.seq, "+", fastq.quali>>

\* faulty variant, for comparison: the lines go to the front of the file
writelines_Front(file, ls) == <<ls>> \o file

\* writelines on an open file
writelines(file, ls) == Append(file, ls)

\* self.outputHandles[name] of a name that has no handles raises KeyError
KeyError(handles, name) == name \notin DOMAIN handles

writeFastQ(handles, name, fastqPair) ==
    [handles EXCEPT ![name] = <<writelines(@[1], lines(fastqPair[1])),
                                writelines(@[2], lines(fastqPair[2]))>>]

\* faulty variant, for comparison: the wildcard is clipped like a one-letter barcode
clip_WildcardCounts(queryBC) == Len(queryBC)

\* clip1, clip2
clip(queryBC) == IF queryBC = Wildcard THEN 0 ELSE Len(queryBC)

\* fastq.seq = fastq.seq[clip:]; fastq.quali = fastq.quali[clip:]
clipped(fastq, c) == [fastq EXCEPT !.seq = Drop(@, c), !.quali = Drop(@, c)]

\* the for loop of process: the place in the dict of the first sample whose
\* match returns True, 0 when the loop runs to its else
FirstMatch(smp, r1, r2, i1, i2) ==
    LET hit == {j \in 1..Len(smp) :
                  QuadrupelIndex_match(smp[j].v, r1.seq, r2.seq, i1.seq, i2.seq).ret}
    IN IF hit = {} THEN 0 ELSE CHOOSE j \in hit : \A l \in hit : j <= l

\* faulty variant, for comparison: the undetermined counter is not incremented
process_else_NoCount(sheet, r1, r2) ==
    [sheet EXCEPT
        !.outputHandles = IF sheet.withUndetermined
                          THEN writeFastQ(@, "Undetermined", <<r1, r2>>)
                          ELSE @,
        !.dest = "Undetermined",
        !.wrote = sheet.withUndetermined
                    /\ ~KeyError(sheet.outputHandles, "Undetermined"),
        !.raised = sheet.withUndetermined
                     /\ KeyError(sheet.outputHandles, "Undetermined")]

\* the else of the for loop
process_else(sheet, r1, r2) ==
    [sheet EXCEPT
        !.undetermined = @ + 1,
        !.outputHandles = IF sheet.withUndetermined
                          THEN writeFastQ(@, "Undetermined", <<r1, r2>>)
                          ELSE @,
        !.dest = "Undetermined",
        !.wrote = sheet.withUndetermined
                    /\ ~KeyError(sheet.outputHandles, "Undetermined"),
        !.raised = sheet.withUndetermined
                     /\ KeyError(sheet.outputHandles, "Undetermined")]

\* the body of the if, for the sample at place j of the dict
process_hit(sheet, j, r1, r2, i1, i2) ==
    LET name == sheet.samples[j].k
        qIndex == QuadrupelIndex_match(sheet.samples[j].v,
                                       r1.seq, r2.seq, i1.seq, i2.seq).self
        clip1 == clip(qIndex.bc1.sequence)
        clip2 == clip(qIndex.bc2.sequence)
    IN [sheet EXCEPT
          !.samples = [@ EXCEPT ![j].v = qIndex],
          !.outputHandles = writeFastQ(@, name, <<clipped(r1, clip1), clipped(r2, clip2)>>),
          !.dest = name,
          !.wrote = ~KeyError(sheet.outputHandles, name),
          !.raised = KeyError(sheet.outputHandles, name)]

\* process: the SampleSheet afterwards, with the sink chosen
SampleSheet_process(sheet, r1, r2, i1, i2) ==
    LET j == FirstMatch(sheet.samples, r1, r2, i1, i2)
    IN IF j # 0 THEN process_hit(sheet, j, r1, r2, i1, i2)
       ELSE process_else(sheet, r1, r2)

\* reportStats: the numbers printed
SampleSheet_reportStats(smp, order, und) ==
    LET perName == [n \in 1..Len(order) |->
                      LET qi == Get(smp, order[n]) IN
                      [name |-> order[n],
                       total |-> Sum(Values(qi.i1.hits)),
                       I1 |-> Index_reportStats(qi.i1),
                       I2 |-> Index_reportStats(qi.i2),
                       BC1 |-> Index_reportStats(qi.bc1),
                       BC2 |-> Index_reportStats(qi.bc2)]]
    IN [samples |-> perName,
        total |-> Sum([n \in 1..Len(order) |-> perName[n].total]),
        undetermined |-> und]

NoReport == [samples |-> <<>>, total |-> 0, undetermined |-> 0]

----------------------------------------------------------------------------
(* Inputs *)

SampleNames == {"S1", "S2"}

SigX == [i1 |-> <<"A", "C">>, i2 |-> <<"N">>, bc1 |-> <<"C", "A">>, bc2 |-> <<"-">>]
SigY == [i1 |-> <<"-">>, i2 |-> <<"C">>, bc1 |-> <<"-">>, bc2 |-> <<"A">>]
SigIllegal == [i1 |-> <<"A", "X">>, i2 |-> <<"-">>, bc1 |-> <<"-">>, bc2 |-> <<"-">>]

\* [name, i1, i2, bc1, bc2] = line.strip().split()
SheetLine(name, sig) ==
    [name |-> name, i1 |-> sig.i1, i2 |-> sig.i2, bc1 |-> sig.bc1, bc2 |-> sig.bc2]

SheetLines ==
    {SheetLine(n, s) : n \in SampleNames, s \in {SigX, SigY}}
        \cup {SheetLine("S1", SigIllegal)}

SheetFiles == SeqsUpTo(SheetLines, MaxLines)

\* a quadruple of records, one of each stream
Quad(id, r1, q1, r2, q2, i1, i2) ==
    [r1 |-> FastqEntry(id, r1, q1), r2 |-> FastqEntry(id, r2, q2),
     i1 |-> FastqEntry(id, i1, [n \in 1..Len(i1) |-> "F"]),
     i2 |-> FastqEntry(id, i2, [n \in 1..Len(i2) |-> "F"])]

QuadA == Quad("@a", <<"C", "A", "G">>, <<"1", "2", "3">>, <<"A", "T">>, <<"4", "5">>,
              <<"A", "C">>, <<"C">>)
QuadB == Quad("@b", <<"C">>, <<"6">>, <<"G">>, <<"7">>, <<"A", "G">>, <<"G">>)
QuadC == Quad("@c", <<"T", "T">>, <<"8", "9">>, <<"A", "N">>, <<"1", "3">>,
              <<"G", "G">>, <<"C">>)
Quads == {QuadA, QuadB, QuadC}

StreamOrder == <<"fastqR1", "fastqR2", "fastqI1", "fastqI2">>
Streams == Range(StreamOrder)

\* the records a stream of the main program may hold
StreamRecs ==
    [s \in Streams |->
        CASE s = "fastqR1" -> {QuadA.r1, QuadC.r1}
          [] s = "fastqR2" -> {QuadA.r2}
          [] s = "fastqI1" -> {QuadA.i1, QuadC.i1}
          [] s = "fastqI2" -> {QuadA.i2}]

MainSheetFiles ==
    {<<SheetLine("S1", SigX), SheetLine("S2", SigY)>>,
     <<SheetLine("S1", SigX)>>,
     <<SheetLine("S1", SigIllegal)>>}

\* default=1 of --mismatches
DefaultMismatches == 1

\* endAfter: {} is None, {n} is the number n
NoCap == {}

PatChars == {"A", "N", "-"}
QueryChars == {"A", "C", "N"}
Patterns == SeqsUpTo(PatChars, MaxPatLen) \ {<<>>}
Queries == SeqsUpTo(QueryChars, MaxQueryLen)

----------------------------------------------------------------------------
(* State before anything runs *)

InitSheet ==
    /\ samples = <<>>
    /\ nameOrder = <<>>
    /\ outputHandles = NoHandles
    /\ withUndetermined = FALSE
    /\ undetermined = 0
    /\ log = <<>>
    /\ report = NoReport

InitMainVars ==
    /\ nr = 1
    /\ pos = [s \in Streams |-> 0]
    /\ readLog = [s \in Streams |-> <<>>]

InitIndexVars ==
    /\ index = Index(Wildcard, 0)
    /\ querySeq = <<>>
    /\ matched = "unset"

\* one SampleSheet object, driven by arbitrary calls
Init ==
    /\ args \in [sample_sheet : SheetFiles, mismatches : 0..MaxBudget,
                 withUndetermined : BOOLEAN, endAfter : {NoCap},
                 fastqLen : {[s \in Streams |-> 0]}]
    /\ pc = "start"
    /\ InitSheet /\ InitMainVars /\ InitIndexVars

\* the program
InitMain ==
    /\ args \in [sample_sheet : MainSheetFiles, mismatches : {DefaultMismatches},
                 withUndetermined : BOOLEAN,
                 endAfter : {NoCap} \cup {{n} : n \in 0..MaxCap},
                 fastqLen : [Streams -> 0..MaxReads]]
    /\ pc = "start"
    /\ InitSheet /\ InitMainVars /\ InitIndexVars

\* one Index object
InitIndex ==
    /\ args = [sample_sheet |-> <<>>, mismatches |-> 0, withUndetermined |-> FALSE,
               endAfter |-> NoCap, fastqLen |-> [s \in Streams |-> 0]]
    /\ pc = "index"
    /\ InitSheet /\ InitMainVars
    /\ index \in {Index(p, m) : p \in Patterns, m \in 0..MaxBudget}
    /\ querySeq \in Queries
    /\ matched = "unset"

----------------------------------------------------------------------------
(* Actions *)

\* SampleSheet(args.sample_sheet, args.output_template, args.mismatches,
\*             args.withUndetermined)
Construct ==
    /\ pc = "start"
    /\ LET r == ReadSheet(args.sample_sheet, args.mismatches, <<>>, <<>>) IN
         /\ samples' = r.samples
         /\ nameOrder' = r.nameOrder
         /\ withUndetermined' = args.withUndetermined
         /\ undetermined' = 0
         /\ outputHandles' = IF r.ok THEN OpenHandles(r.samples, args.withUndetermined)
                             ELSE NoHandles
         /\ pc' = IF r.ok THEN "ready" ELSE "aborted"
    /\ UNCHANGED <<args, log, report, mainVars, indexVars>>

\* the SampleSheet object as one value
Sheet ==
    [samples |-> samples, outputHandles |-> outputHandles,
     withUndetermined |-> withUndetermined, undetermined |-> undetermined,
     dest |-> "", wrote |-> FALSE, raised |-> FALSE]

\* sampleSheet.process(r1, r2, i1, i2); the caller goes on at `next` unless
\* the call raises
DoProcess(q, next) ==
    LET after == SampleSheet_process(Sheet, q.r1, q.r2, q.i1, q.i2) IN
      /\ pc' = IF after.raised THEN "failed" ELSE next
      /\ samples' = after.samples
      /\ outputHandles' = after.outputHandles
      /\ undetermined' = after.undetermined
      /\ log' = Append(log, [r1 |-> q.r1, r2 |-> q.r2, i1 |-> q.i1, i2 |-> q.i2,
                             dest |-> after.dest, wrote |-> after.wrote])
      /\ UNCHANGED <<nameOrder, withUndetermined>>

Process ==
    /\ pc = "ready"
    /\ Len(log) < MaxCalls
    /\ \E q \in Quads : DoProcess(q, "ready")
    /\ UNCHANGED <<args, report, mainVars, indexVars>>

\* sampleSheet.reportStats()
DoReportStats ==
    /\ report' = SampleSheet_reportStats(samples, nameOrder, undetermined)
    /\ pc' = "reported"
    /\ UNCHANGED <<args, sheetVars, log, mainVars, indexVars>>

ReportStats ==
    /\ pc = "ready"
    /\ DoReportStats

\* FastQIterator.__next__ of stream s yields a record
HasNext(s) == pos[s] < args.fastqLen[s]

\* faulty variant, for comparison: only the read-1 iterator ends the loop
zipStop_R1Only == IF HasNext("fastqR1") THEN 5 ELSE 1

\* zip: the place in StreamOrder of the first iterator that raises
\* StopIteration, 5 when all four yield
zipStop ==
    LET stopped == {n \in 1..4 : ~HasNext(StreamOrder[n])}
    IN IF stopped = {} THEN 5 ELSE CHOOSE n \in stopped : \A l \in stopped : n <= l

\* the iterators zip has called before it stops, each one record further
Pulled(upto, rec) ==
    /\ pos' = [s \in Streams |->
                 IF \E n \in 1..(upto - 1) : StreamOrder[n] = s THEN pos[s] + 1
                 ELSE pos[s]]
    /\ readLog' = [s \in Streams |->
                     IF \E n \in 1..(upto - 1) : StreamOrder[n] = s
                     THEN Append(readLog[s], rec[s]) ELSE readLog[s]]

\* the records the four iterators yield in one turn, when they do
Yielded(r1, r2, i1, i2) ==
    [s \in Streams |->
        CASE s = "fastqR1" -> r1 [] s = "fastqR2" -> r2
          [] s = "fastqI1" -> i1 [] s = "fastqI2" -> i2]

\* if args.endAfter is not None: if nr > args.endAfter: break
capReached(n, endAfter) == \E cap \in endAfter : n > cap

\* one turn of the for loop
MainLoopBody ==
    /\ pc = "ready"
    /\ zipStop = 5
    /\ \E r1 \in StreamRecs["fastqR1"], r2 \in StreamRecs["fastqR2"],
          i1 \in StreamRecs["fastqI1"], i2 \in StreamRecs["fastqI2"] :
         /\ Pulled(5, Yielded(r1, r2, i1, i2))
         /\ DoProcess([r1 |-> r1, r2 |-> r2, i1 |-> i1, i2 |-> i2],
                      IF capReached(nr + 1, args.endAfter) THEN "loop_done"
                      ELSE "ready")
    /\ nr' = IF pc' = "failed" THEN nr ELSE nr + 1
    /\ UNCHANGED <<args, report, indexVars>>

\* zip ends the loop: some iterator raised StopIteration
MainLoopEnd ==
    /\ pc = "ready"
    /\ zipStop < 5
    /\ \E r1 \in StreamRecs["fastqR1"], r2 \in StreamRecs["fastqR2"],
          i1 \in StreamRecs["fastqI1"], i2 \in StreamRecs["fastqI2"] :
         Pulled(zipStop, Yielded(r1, r2, i1, i2))
    /\ pc' = "loop_done"
    /\ UNCHANGED <<args, sheetVars, log, report, nr, indexVars>>

MainReportStats ==
    /\ pc = "loop_done"
    /\ DoReportStats

\* index.match(querySeq)
CallMatch ==
    /\ pc = "index"
    /\ matched = "unset"
    /\ matched' = IF Index_match(index, querySeq) THEN "True" ELSE "False"
    /\ UNCHANGED <<args, pc, sheetVars, log, report, mainVars, index, querySeq>>

\* index.recordHit(querySeq)
CallRecordHit ==
    /\ pc = "index"
    /\ Sum(Values(index.hits)) < MaxHits
    /\ index' = Index_recordHit(index, querySeq)
    /\ UNCHANGED <<args, pc, sheetVars, log, report, mainVars, querySeq, matched>>

Next == Construct \/ Process \/ ReportStats

NextMain == Construct \/ MainLoopBody \/ MainLoopEnd \/ MainReportStats

NextIndex == CallMatch \/ CallRecordHit

Spec == Init /\ [][Next]_vars

SpecMain == InitMain /\ [][NextMain]_vars

SpecIndex == InitIndex /\ [][NextIndex]_vars

----------------------------------------------------------------------------
(* Vocabulary of the properties *)

Last(s) == s[Len(s)]

\* a step that is one call of process; the call is the last entry of log'
ProcessStep == Len(log') = Len(log) + 1

\* the length a pattern stands for: none for the wildcard
PatLen(pattern) == IF pattern = <<"-">> THEN 0 ELSE Len(pattern)

\* positions of the pattern, within the query, where the pattern is not N and
\* the query differs
Mismatching(pattern, query) ==
    {i \in 1..Len(pattern) :
        i <= Len(query) /\ pattern[i] # "N" /\ pattern[i] # query[i]}

\* the four channels of one signature each accept their read of the call
ChannelsMatch(qi, e) ==
    /\ Index_match(qi.i1, e.i1.seq)
    /\ Index_match(qi.i2, e.i2.seq)
    /\ Index_match(qi.bc1, e.r1.seq)
    /\ Index_match(qi.bc2, e.r2.seq)

HitTotal(idx) == Sum(Values(idx.hits))

\* the lines of the sheet whose signature accepts the quadruple
MatchingLines(e) ==
    {l \in 1..Len(args.sample_sheet) :
        LET line == args.sample_sheet[l] IN
        ChannelsMatch(QuadrupelIndex(line.i1, line.i2, line.bc1, line.bc2,
                                     args.mismatches), e)}

FirstOf(S) == CHOOSE l \in S : \A m \in S : l <= m

\* file `new` is file `old` with exactly the records `added` after it
Grew(new, old, added) == new = old \o added

MinLen == Min(Min(args.fastqLen["fastqR1"], args.fastqLen["fastqR2"]),
              Min(args.fastqLen["fastqI1"], args.fastqLen["fastqI2"]))

----------------------------------------------------------------------------
(* C1 *)

\* C1: conservation law. After reportStats, the undetermined count plus the
\* run total it computed (the sum over nameOrder of each sample's index-1
\* hit counts) equals the number of quadruples passed to process.
C1_Conservation ==
    pc = "reported" => report.undetermined + report.total = Len(log)

----------------------------------------------------------------------------
(* C2 *)

\* C2: first match wins. A call of process with a quadruple that the sheet
\* lines of two or more samples accept writes the pair once to the sink of the
\* sample of the earliest such line and to no other sink, changes only that
\* sample's hit tables and leaves the undetermined counter alone.
C2_FirstMatchWins ==
    [][(pc = "ready" /\ ProcessStep) =>
        LET e == Last(log')
            M == MatchingLines(e)
        IN Cardinality({args.sample_sheet[l].name : l \in M}) >= 2 =>
            LET first == args.sample_sheet[FirstOf(M)].name IN
            /\ undetermined' = undetermined
            /\ \A n \in DOMAIN outputHandles :
                 \A f \in 1..2 :
                    Len(outputHandles'[n][f]) =
                        Len(outputHandles[n][f]) + (IF n = first THEN 1 ELSE 0)
            /\ \A j \in 1..Len(samples) :
                 samples[j].k # first => samples'[j] = samples[j]
            /\ HitTotal(Get(samples', first).i1) = HitTotal(Get(samples, first).i1) + 1
      ]_vars

----------------------------------------------------------------------------
(* C3 *)

\* `out` is `input` without its first n characters, for the n given
CutBy(out, input, n) ==
    /\ Len(out) = Len(input) - n
    /\ \A i \in 1..Len(out) : out[i] = input[i + n]

\* the record process appended to the sink of the sample it chose
Emitted(e, f) == Last(outputHandles'[e.dest][f])

\* C3 as stated: trim correctness. Every routed pair is emitted with exactly
\* len(barcode pattern) leading characters removed from sequence and quality
\* (none for "-"): emitted length = original length - pattern length.
C3_TrimExact ==
    [][(pc = "ready" /\ ProcessStep /\ Last(log').dest # "Undetermined") =>
        LET e == Last(log')
            qi == Get(samples, e.dest)
            L1 == PatLen(qi.bc1.sequence)
            L2 == PatLen(qi.bc2.sequence)
        IN /\ CutBy(Emitted(e, 1)[2], e.r1.seq, L1)
           /\ CutBy(Emitted(e, 1)[4], e.r1.quali, L1)
           /\ CutBy(Emitted(e, 2)[2], e.r2.seq, L2)
           /\ CutBy(Emitted(e, 2)[4], e.r2.quali, L2)
      ]_vars

\* C3 amended: every routed pair is emitted with its first min(len(barcode
\* pattern), len(read)) characters removed from sequence and quality (none for
\* "-"): a read shorter than the pattern is emitted empty; the removed part is
\* the original prefix, the identifier is kept, and sequence and quality stay
\* of equal length.
C3_TrimAmended ==
    [][(pc = "ready" /\ ProcessStep /\ Last(log').dest # "Undetermined") =>
        LET e == Last(log')
            qi == Get(samples, e.dest)
            L1 == PatLen(qi.bc1.sequence)
            L2 == PatLen(qi.bc2.sequence)
        IN /\ Len(outputHandles'[e.dest][1]) = Len(outputHandles[e.dest][1]) + 1
           /\ Len(outputHandles'[e.dest][2]) = Len(outputHandles[e.dest][2]) + 1
           /\ Emitted(e, 1)[1] = e.r1.name /\ Emitted(e, 2)[1] = e.r2.name
           /\ CutBy(Emitted(e, 1)[2], e.r1.seq, Min(L1, Len(e.r1.seq)))
           /\ CutBy(Emitted(e, 1)[4], e.r1.quali, Min(L1, Len(e.r1.quali)))
           /\ CutBy(Emitted(e, 2)[2], e.r2.seq, Min(L2, Len(e.r2.seq)))
           /\ CutBy(Emitted(e, 2)[4], e.r2.quali, Min(L2, Len(e.r2.quali)))
           /\ Len(Emitted(e, 1)[2]) = Len(Emitted(e, 1)[4])
           /\ Len(Emitted(e, 2)[2]) = Len(Emitted(e, 2)[4])
      ]_vars

\* one sample has taken a read longer than its barcode-1 pattern and a read
\* shorter than it, and its sink holds both, the second one empty
C3_Witness ==
    \E n \in DOMAIN outputHandles \ {"Undetermined"} :
        /\ Get(samples, n).bc1.sequence = <<"C", "A">>
        /\ Len(log) = 2
        /\ log[1].dest = n /\ Len(log[1].r1.seq) = 3
        /\ log[2].dest = n /\ Len(log[2].r1.seq) = 1
        /\ Len(outputHandles[n][1]) = 2
        /\ outputHandles[n][1][1][2] = <<"G">>
        /\ outputHandles[n][1][2][2] = <<>>

----------------------------------------------------------------------------
(* C4 *)

\* C4: mismatch threshold with asymmetric N. For a pattern other than "-", of
\* length L and budget M, and a query of length at least L, match returns true
\* iff the number of positions i <= L where the pattern is not N and differs
\* from the query is at most M.
C4_MismatchThreshold ==
    (/\ pc = "index"
     /\ matched # "unset"
     /\ index.sequence # <<"-">>
     /\ Len(querySeq) >= Len(index.sequence))
    => (matched = "True"
          <=> Cardinality(Mismatching(index.sequence, querySeq)) <= index.mismatches)

\* a match at exactly the budget, the budget not 0, where a pattern N faces
\* another letter (not counted) and a query N faces a pattern letter (counted)
C4_Witness ==
    /\ pc = "index"
    /\ matched = "True"
    /\ index.sequence # <<"-">>
    /\ Len(querySeq) >= Len(index.sequence)
    /\ index.mismatches >= 1
    /\ Cardinality(Mismatching(index.sequence, querySeq)) = index.mismatches
    /\ \E i \in 1..Len(index.sequence) : index.sequence[i] = "N" /\ querySeq[i] # "N"
    /\ \E i \in 1..Len(index.sequence) : index.sequence[i] = "A" /\ querySeq[i] = "N"

----------------------------------------------------------------------------
(* C5 *)

----------------------------------------------------------------------------
(* C6 *)

\* the calls of process that chose the sink of sample n
RoutedTo(n) == {c \in 1..Len(log) : log[c].dest = n}

\* C6: hits only on a full four-way match. A record is routed to a sample only
\* if each of that sample's four channels accepts its own read within its own
\* budget, and to none only if every sample has a channel that refuses; so for
\* every sample the totals of its four hit tables are equal to each other, to
\* the number of records routed to it and to the records in its sink.
C6_HitsOnlyOnFullMatch ==
    pc \in {"ready", "reported"} =>
        /\ \A j \in 1..Len(samples) :
             LET qi == samples[j].v
                 n == samples[j].k
             IN /\ HitTotal(qi.i1) = Cardinality(RoutedTo(n))
                /\ HitTotal(qi.i2) = HitTotal(qi.i1)
                /\ HitTotal(qi.bc1) = HitTotal(qi.i1)
                /\ HitTotal(qi.bc2) = HitTotal(qi.i1)
                /\ Len(outputHandles[n][1]) = HitTotal(qi.i1)
                /\ Len(outputHandles[n][2]) = HitTotal(qi.i1)
        /\ \A c \in 1..Len(log) :
             IF log[c].dest = "Undetermined"
             THEN \A j \in 1..Len(samples) : ~ChannelsMatch(samples[j].v, log[c])
             ELSE ChannelsMatch(Get(samples, log[c].dest), log[c])

\* a sample has taken a record with one mismatch in each of two channels at
\* budget 1, and another sample has refused a record that one of its channels
\* accepts
C6_Witness ==
    /\ pc = "ready"
    /\ \E j \in 1..Len(samples) :
         /\ samples[j].v.i1.mismatches = 1
         /\ HitTotal(samples[j].v.bc2) = 2
         /\ \E c \in RoutedTo(samples[j].k) :
              /\ Cardinality(Mismatching(samples[j].v.i2.sequence, log[c].i2.seq)) = 1
              /\ Cardinality(Mismatching(samples[j].v.bc2.sequence, log[c].r2.seq)) = 1
    /\ \E j \in 1..Len(samples) :
         \E c \in 1..Len(log) :
            /\ log[c].dest # samples[j].k
            /\ ~ChannelsMatch(samples[j].v, log[c])
            /\ Index_match(samples[j].v.i2, log[c].i2.seq)

----------------------------------------------------------------------------
(* C7 *)

\* C7: undetermined path. A call of process with a quadruple that no sample
\* matches adds exactly 1 to the undetermined counter, changes no hit table,
\* and writes the pair, untrimmed, once to the "Undetermined" sink if the
\* bucket is enabled and to no sink if it is not.
C7_UndeterminedPath ==
    [][(/\ pc = "ready"
        /\ ProcessStep
        /\ \A j \in 1..Len(samples) : ~ChannelsMatch(samples[j].v, Last(log'))) =>
        LET e == Last(log') IN
        /\ undetermined' = undetermined + 1
        /\ samples' = samples
        /\ \A n \in DOMAIN outputHandles \ {"Undetermined"} :
             outputHandles'[n] = outputHandles[n]
        /\ DOMAIN outputHandles' = DOMAIN outputHandles
        /\ IF withUndetermined
           THEN /\ Grew(outputHandles'["Undetermined"][1],
                        outputHandles["Undetermined"][1],
                        <<<<e.r1.name, e.r1.seq, "+", e.r1.quali>>>>)
                /\ Grew(outputHandles'["Undetermined"][2],
                        outputHandles["Undetermined"][2],
                        <<<<e.r2.name, e.r2.seq, "+", e.r2.quali>>>>)
           ELSE outputHandles' = outputHandles
      ]_vars

\* with the bucket enabled and a sample configured, a record no sample matches
\* has been counted and written whole
C7_Witness ==
    /\ pc = "ready"
    /\ withUndetermined
    /\ Len(samples) >= 1
    /\ undetermined = 1
    /\ Len(log) = 1
    /\ outputHandles["Undetermined"][1] =
          <<<<log[1].r1.name, log[1].r1.seq, "+", log[1].r1.quali>>>>
    /\ Len(log[1].r1.seq) >= 2

----------------------------------------------------------------------------
(* C8 *)

\* C8: early-termination cap. With --endAfter N the main loop passes exactly
\* min(N, length of the shortest stream) quadruples to process, so at most N,
\* and the statistics reported count exactly those.
C8_Cap ==
    (pc = "reported" /\ args.endAfter # NoCap) =>
        \A N \in args.endAfter :
            /\ Len(log) = Min(N, MinLen)
            /\ report.total + report.undetermined = Len(log)

----------------------------------------------------------------------------
(* C9 *)

\* C9: lockstep consumption with silent truncation. Without a cap, the k-th
\* quadruple passed to process is the k-th record of each of the four streams;
\* no call raises, no stream is read past its end, and the loop ends, and the
\* report is made, with exactly as many quadruples processed as the shortest
\* stream holds, whatever the other lengths.
C9_Lockstep ==
    (args.endAfter = NoCap /\ pc \notin {"start", "aborted"}) =>
        /\ pc \in {"ready", "loop_done", "reported"}
        /\ \A c \in 1..Len(log) :
             /\ log[c].r1 = readLog["fastqR1"][c]
             /\ log[c].r2 = readLog["fastqR2"][c]
             /\ log[c].i1 = readLog["fastqI1"][c]
             /\ log[c].i2 = readLog["fastqI2"][c]
        /\ \A s \in Streams :
             /\ Len(readLog[s]) = pos[s]
             /\ Len(log) <= pos[s] /\ pos[s] <= args.fastqLen[s]
        /\ nr = Len(log) + 1
        /\ pc = "ready" => Len(log) < MinLen \/ zipStop < 5
        /\ pc \in {"loop_done", "reported"} => Len(log) = MinLen

\* a run without cap over streams of unequal lengths has processed two
\* different quadruples and reported
C9_Witness ==
    /\ pc = "reported"
    /\ args.endAfter = NoCap
    /\ \E s, t \in Streams : args.fastqLen[s] < args.fastqLen[t]
    /\ Len(log) = 2
    /\ log[1].r1 # log[2].r1

----------------------------------------------------------------------------
(* C10 *)

\* the lines process writes for read f of call c: trimmed by the chosen
\* sample's barcode pattern, whole for "Undetermined"
Written(c, f) ==
    LET e == log[c]
        r == IF f = 1 THEN e.r1 ELSE e.r2
        L == IF e.dest = "Undetermined" THEN 0
             ELSE PatLen(IF f = 1 THEN Get(samples, e.dest).bc1.sequence
                         ELSE Get(samples, e.dest).bc2.sequence)
    IN <<r.name, SubSeq(r.seq, L + 1, Len(r.seq)), "+",
         SubSeq(r.quali, L + 1, Len(r.quali))>>

\* the calls that wrote to sink n, in arrival order
RECURSIVE CallsInto(_, _)
CallsInto(n, upto) ==
    IF upto = 0 THEN <<>>
    ELSE CallsInto(n, upto - 1)
            \o (IF log[upto].dest = n /\ log[upto].wrote THEN <<upto>> ELSE <<>>)

\* C10: strict FIFO per sink. Each sink's read-1 file and read-2 file hold, in
\* arrival order, the records of exactly the calls that chose that sink: the
\* two files have the same records at the same positions.
C10_FifoPerSink ==
    pc \in {"ready", "reported"} =>
        \A n \in DOMAIN outputHandles :
            LET calls == CallsInto(n, Len(log)) IN
            \A f \in 1..2 :
                /\ Len(outputHandles[n][f]) = Len(calls)
                /\ \A i \in 1..Len(calls) :
                     outputHandles[n][f][i] = Written(calls[i], f)

\* a sink holds two different records, the earlier call's first
C10_Witness ==
    /\ pc = "ready"
    /\ Len(log) = 2
    /\ log[1].r1.name # log[2].r1.name
    /\ \E n \in DOMAIN outputHandles :
         /\ Len(outputHandles[n][1]) = 2
         /\ outputHandles[n][1][1][1] = log[1].r1.name
         /\ outputHandles[n][2][2][1] = log[2].r2.name

====
